---- MODULE Spec2Model ----
(***************************************************************************)
(* A model of dustysn/model.py: the dust emission forward model, the       *)
(* censored likelihood, the prior, the posterior, and the MCMC driver      *)
(* (fit_dust_model / mcmc_with_sigma_clipping).                             *)
(*                                                                         *)
(* Numbers.  Python floats are modelled as records [k, v]: k = "fin" with  *)
(* an integer v, or k in {"-inf", "+inf", "nan"}.  A raised exception is   *)
(* a record whose k is the exception's name.  Log-probabilities are kept   *)
(* in units of 1e-3 (milli-nats); rationals are pairs <<num, den>>.         *)
(***************************************************************************)
EXTENDS Integers, Sequences, FiniteSets, TLC

VARIABLES
    call,         \* the last call of a pure function: its inputs and its result
    pc,           \* where the invocation of fit_dust_model stands
    args,         \* the arguments of the invocation
    np_seed,      \* what last seeded numpy's global generator
    pos_in,       \* fit_dust_model's pos_in: the drawn positions
    pos_out,      \* fit_dust_model's pos_out
    pos,          \* the positions the next run of the sampler starts from
    sampler,      \* the emcee sampler, once constructed
    chain,        \* sampler.chain: one entry per recorded step
    cycle,        \* the number of runs of the sampler completed
    samples_crop, \* the steps the summarizer retains
    results,      \* the result mapping
    err           \* the error raised to the caller, if any

fitvars == <<pc, args, np_seed, pos_in, pos_out, pos, sampler, chain, cycle,
             samples_crop, results, err>>
vars == <<call, fitvars>>

-----------------------------------------------------------------------------
(* Floating-point values *)

Fin(n) == [k |-> "fin", v |-> n]
NegInf == [k |-> "-inf", v |-> 0]
PosInf == [k |-> "+inf", v |-> 0]
NaN == [k |-> "nan", v |-> 0]
ValueError == [k |-> "ValueError", v |-> 0]

\* np.isfinite
isfinite(x) == x.k = "fin"

\* x < y on floats: every comparison with NaN is False
FLt(x, y) ==
    CASE x.k = "nan" \/ y.k = "nan" -> FALSE
      [] x.k = "fin" /\ y.k = "fin" -> x.v < y.v
      [] x.k = "-inf" -> y.k # "-inf"
      [] x.k = "+inf" -> FALSE
      [] OTHER -> y.k = "+inf"

FGt(x, y) == FLt(y, x)

FLe(x, y) == FLt(x, y) \/ (x.k # "nan" /\ x = y)

\* x + y on floats
FAdd(x, y) ==
    CASE x.k = "nan" \/ y.k = "nan" -> NaN
      [] x.k = "fin" /\ y.k = "fin" -> Fin(x.v + y.v)
      [] x.k = "fin" -> y
      [] y.k = "fin" -> x
      [] x.k = y.k -> x
      [] OTHER -> NaN

\* -x and x - y on floats
FNeg(x) ==
    CASE x.k = "fin" -> Fin(-x.v)
      [] x.k = "-inf" -> PosInf
      [] x.k = "+inf" -> NegInf
      [] OTHER -> x

FSub(x, y) == FAdd(x, FNeg(y))

\* c * x for an integer c >= 0
FScale(c, x) ==
    CASE x.k = "fin" -> Fin(c * x.v)
      [] x.k = "nan" \/ c = 0 -> NaN
      [] OTHER -> x

-----------------------------------------------------------------------------
(* The prior table and log_prior *)

priors ==
    [log_dust_mass_cold |-> <<-6, 1>>,
     temp_cold |-> <<20, 2000>>,
     log_dust_mass_hot |-> <<-8, 1>>,
     temperature_hot |-> <<20, 3000>>]

\* Python's chained comparison  lo < x < hi
Within(bounds, x) == FLt(Fin(bounds[1]), x) /\ FLt(x, Fin(bounds[2]))

\* log_prior with the hot temperature checked against the cold component's
\* interval.
log_prior_cold_bounds(theta, n_components) ==
    IF n_components = 1 THEN
        IF /\ Within(priors.log_dust_mass_cold, theta[1])
           /\ Within(priors.temp_cold, theta[2])
        THEN Fin(0) ELSE NegInf
    ELSE IF n_components = 2 THEN
        IF /\ Within(priors.log_dust_mass_cold, theta[1])
           /\ Within(priors.temp_cold, theta[2])
           /\ Within(priors.log_dust_mass_hot, theta[3])
           /\ Within(priors.temp_cold, theta[4])
        THEN IF FGt(theta[4], theta[2]) THEN Fin(0) ELSE NegInf
        ELSE NegInf
    ELSE ValueError

\* log_prior without the ordering test.
log_prior_unordered(theta, n_components) ==
    IF n_components = 1 THEN
        IF /\ Within(priors.log_dust_mass_cold, theta[1])
           /\ Within(priors.temp_cold, theta[2])
        THEN Fin(0) ELSE NegInf
    ELSE IF n_components = 2 THEN
        IF /\ Within(priors.log_dust_mass_cold, theta[1])
           /\ Within(priors.temp_cold, theta[2])
           /\ Within(priors.log_dust_mass_hot, theta[3])
           /\ Within(priors.temperature_hot, theta[4])
        THEN Fin(0) ELSE NegInf
    ELSE ValueError

\* log_prior with the ordering test hot >= cold.
log_prior_weak_order(theta, n_components) ==
    IF n_components = 1 THEN
        IF /\ Within(priors.log_dust_mass_cold, theta[1])
           /\ Within(priors.temp_cold, theta[2])
        THEN Fin(0) ELSE NegInf
    ELSE IF n_components = 2 THEN
        IF /\ Within(priors.log_dust_mass_cold, theta[1])
           /\ Within(priors.temp_cold, theta[2])
           /\ Within(priors.log_dust_mass_hot, theta[3])
           /\ Within(priors.temperature_hot, theta[4])
        THEN IF ~FLt(theta[4], theta[2]) THEN Fin(0) ELSE NegInf
        ELSE NegInf
    ELSE ValueError

log_prior(theta, n_components) ==
    IF n_components = 1 THEN
        IF /\ Within(priors.log_dust_mass_cold, theta[1])
           /\ Within(priors.temp_cold, theta[2])
        THEN Fin(0) ELSE NegInf
    ELSE IF n_components = 2 THEN
        IF /\ Within(priors.log_dust_mass_cold, theta[1])
           /\ Within(priors.temp_cold, theta[2])
           /\ Within(priors.log_dust_mass_hot, theta[3])
           /\ Within(priors.temperature_hot, theta[4])
        THEN IF FGt(theta[4], theta[2]) THEN Fin(0) ELSE NegInf
        ELSE NegInf
    ELSE ValueError

-----------------------------------------------------------------------------
(* The forward model.                                                      *)
(*                                                                         *)
(* A Quantity is [k |-> "Quantity", unit, val]: val is a sequence of       *)
(* rationals <<num, den>>.  Magnitudes are carried in a unit system in     *)
(* which c = 1, 1 Jy = 1 and luminosities are counted in units of 4 pi sr, *)
(* so that L / (4 pi d^2) is val / d^2; the unit tag records what the      *)
(* quantity is per (Hz or Angstrom).  Wavelengths are integers (microns),  *)
(* the redshift z is an integer and so is the distance.                    *)
(***************************************************************************)

Quantity(unit, val) == [k |-> "Quantity", unit |-> unit, val |-> val]
Bare(val) == [k |-> "bare", unit |-> "", val |-> val]

PerHz == {"erg/s/Hz", "erg/s/cm2/Hz", "Jy"}
PerAA == {"erg/s/AA", "erg/s/cm2/AA"}

RMul(r, n) == <<r[1] * n, r[2]>>
RDiv(r, n) == <<r[1], r[2] * n>>
REq(r, s) == r[1] * s[2] = s[1] * r[2]

\* astropy's BlackBody(temperature)(rest_wave): an external function of the
\* temperature and the wavelength, here an integer stand-in that grows with
\* the temperature and falls with the wavelength.
BlackBody(temperature, w) == temperature \div (50 * w)

\* flux_in.to(unit, equivalencies=u.spectral_density(wave))
ToUnit(q, unit, wave) ==
    LET cross(i) ==
            IF q.unit \in PerAA /\ unit \in PerHz
            THEN RMul(q.val[i], wave[i] * wave[i])
            ELSE IF q.unit \in PerHz /\ unit \in PerAA
            THEN RDiv(q.val[i], wave[i] * wave[i])
            ELSE q.val[i]
    IN Quantity(unit, [i \in DOMAIN q.val |-> cross(i)])

calc_luminosity(rest_wave, kappa_interp, dust_mass, temperature, output_units) ==
    IF Len(rest_wave) # Len(kappa_interp) THEN ValueError
    ELSE
        LET luminosity_in ==
                Quantity("erg/s/Hz",
                         [i \in DOMAIN rest_wave |->
                            <<dust_mass * kappa_interp[i]
                                * BlackBody(temperature, rest_wave[i]), 1>>])
        IN IF output_units = "nu" THEN luminosity_in
           ELSE IF output_units = "lambda"
           THEN ToUnit(luminosity_in, "erg/s/AA", rest_wave)
           ELSE ValueError

\* The same as calc_flux_in with the (1 + redshift) factor applied the other
\* way round.
calc_flux_in_swapped(luminosity, distance, redshift) ==
    IF luminosity.k # "Quantity" THEN ValueError
    ELSE IF luminosity.unit \in PerHz
    THEN Quantity("erg/s/cm2/Hz",
                  [i \in DOMAIN luminosity.val |->
                     RDiv(RDiv(luminosity.val[i], distance * distance), 1 + redshift)])
    ELSE IF luminosity.unit \in PerAA
    THEN Quantity("erg/s/cm2/AA",
                  [i \in DOMAIN luminosity.val |->
                     RMul(RDiv(luminosity.val[i], distance * distance), 1 + redshift)])
    ELSE ValueError

\* The local flux_in of calc_flux: luminosity / (4 pi distance^2) with the
\* (1 + redshift) factor, or the error the function raises before it.
calc_flux_in(luminosity, distance, redshift) ==
    IF luminosity.k # "Quantity" THEN ValueError
    ELSE IF luminosity.unit \in PerHz
    THEN Quantity("erg/s/cm2/Hz",
                  [i \in DOMAIN luminosity.val |->
                     RMul(RDiv(luminosity.val[i], distance * distance), 1 + redshift)])
    ELSE IF luminosity.unit \in PerAA
    THEN Quantity("erg/s/cm2/AA",
                  [i \in DOMAIN luminosity.val |->
                     RDiv(RDiv(luminosity.val[i], distance * distance), 1 + redshift)])
    ELSE ValueError

calc_flux(rest_wave, luminosity, distance, redshift, output_units) ==
    LET flux_in == calc_flux_in(luminosity, distance, redshift)
        obs_wave == [i \in DOMAIN rest_wave |-> rest_wave[i] * (1 + redshift)]
    IN IF flux_in.k # "Quantity" THEN flux_in
       ELSE IF output_units = "Jy" THEN ToUnit(flux_in, "Jy", obs_wave)
       ELSE IF output_units = "nu" THEN ToUnit(flux_in, "erg/s/cm2/Hz", obs_wave)
       ELSE IF output_units = "lambda" THEN ToUnit(flux_in, "erg/s/cm2/AA", obs_wave)
       ELSE ValueError

\* calc_model_flux with kappa_interp and distance supplied, as model_flux
\* calls it.  obs_wave / (1 + redshift) is exact for the wavelengths the
\* model draws (multiples of 1 + redshift).
calc_model_flux(obs_wave, dust_mass, temperature, redshift, distance, kappa_interp) ==
    LET rest_wave == [i \in DOMAIN obs_wave |-> obs_wave[i] \div (1 + redshift)]
        luminosity == calc_luminosity(rest_wave, kappa_interp, dust_mass,
                                      temperature, "nu")
    IN IF luminosity.k # "Quantity" THEN luminosity
       ELSE calc_flux(rest_wave, luminosity, distance, redshift, "Jy")

\* flux1 + flux2 of two Quantities of the same unit and length
QAdd(a, b) ==
    Quantity(a.unit,
             [i \in DOMAIN a.val |->
                <<a.val[i][1] * b.val[i][2] + b.val[i][1] * a.val[i][2],
                  a.val[i][2] * b.val[i][2]>>])

\* model_flux without filter bandpasses (obs_wave_filters is None), for a
\* theta of finite floats
\* model_flux taking every n_components but 2 as one component
model_flux_one_otherwise(theta, obs_wave, obs_flux, kappa_interp, redshift, distance, n_components) ==
    IF n_components = 2 THEN
        LET flux1 == calc_model_flux(obs_wave, 10 ^ theta[1].v, theta[2].v, redshift,
                                     distance, kappa_interp)
            flux2 == calc_model_flux(obs_wave, 10 ^ theta[3].v, theta[4].v, redshift,
                                     distance, kappa_interp)
        IN IF flux1.k # "Quantity" THEN flux1
           ELSE IF flux2.k # "Quantity" THEN flux2
           ELSE QAdd(flux1, flux2)
    ELSE calc_model_flux(obs_wave, 10 ^ theta[1].v, theta[2].v, redshift, distance,
                         kappa_interp)

model_flux(theta, obs_wave, obs_flux, kappa_interp, redshift, distance, n_components) ==
    IF n_components = 1 THEN
        calc_model_flux(obs_wave, 10 ^ theta[1].v, theta[2].v, redshift, distance,
                        kappa_interp)
    ELSE IF n_components = 2 THEN
        LET flux1 == calc_model_flux(obs_wave, 10 ^ theta[1].v, theta[2].v, redshift,
                                     distance, kappa_interp)
            flux2 == calc_model_flux(obs_wave, 10 ^ theta[3].v, theta[4].v, redshift,
                                     distance, kappa_interp)
        IN IF flux1.k # "Quantity" THEN flux1
           ELSE IF flux2.k # "Quantity" THEN flux2
           ELSE QAdd(flux1, flux2)
    ELSE ValueError

-----------------------------------------------------------------------------
(* The censored likelihood, in milli-nats *)

RECURSIVE SumSeq(_)
SumSeq(s) == IF s = <<>> THEN 0 ELSE Head(s) + SumSeq(Tail(s))

RECURSIVE FSumSeq(_)
FSumSeq(s) == IF s = <<>> THEN Fin(0) ELSE FAdd(Head(s), FSumSeq(Tail(s)))

\* 1000 * ln(0.5 * (1 + erf(z / sqrt(2)))) for z = z2 / 2, z2 = -16 .. 6, as
\* float64 computes it
LnPhiTable ==
    <<-35032, -31076, -27384, -23938, -20737, -17779, -15065, -12592,
      -10360, -8366, -6608, -5082, -3783, -2706, -1841, -1176,
      -693, -369, -173, -69, -23, -6, -1>>

\* LnPhi with the logarithm of a zero probability raising a domain error
LnPhi_domain_error(z2) ==
    IF z2 <= -17 THEN ValueError
    ELSE IF z2 >= 7 THEN Fin(0)
    ELSE Fin(LnPhiTable[z2 + 17])

\* np.log(prob) if prob > 0 else -np.inf, with prob = 0.5 * (1 + erf(z/sqrt 2)):
\* float64 gives prob = 0 for z <= -8.5 and ln(prob) = 0 to three places for
\* z >= 3.5
LnPhi(z2) ==
    IF z2 <= -17 THEN NegInf
    ELSE IF z2 >= 7 THEN Fin(0)
    ELSE Fin(LnPhiTable[z2 + 17])

\* 1000 * 0.5 * ln(2 pi err^2) for err = 1, 2, 3
HalfLogNorm == <<919, 1612, 2018>>

\* The contribution of upper limit j with the sign of z reversed.
upper_limit_term_erfc(flux_model_j, obs_flux_j, obs_flux_err_j) ==
    LnPhi((2 * (obs_flux_j - flux_model_j)) \div obs_flux_err_j)

\* The contribution of upper limit j: z = (flux_model - obs_flux) / err.  The
\* division is exact for the errors the model draws (1 and 2) in half units.
upper_limit_term(flux_model_j, obs_flux_j, obs_flux_err_j) ==
    LnPhi((2 * (flux_model_j - obs_flux_j)) \div obs_flux_err_j)

\* flux_model.value[j]: exact for the distances the model draws
QValue(q, j) == q.val[j][1] \div q.val[j][2]

\* log_likelihood with the Gaussian term taken over every observation
log_likelihood_all_gaussian(theta, obs_wave, obs_flux, obs_flux_err, obs_limits, kappa_interp, redshift, distance, n_components) ==
    LET flux_model == model_flux(theta, obs_wave, obs_flux, kappa_interp,
                                 redshift, distance, n_components)
        N == Len(obs_flux)
        det(j) ==
            LET det_error == obs_flux[j] - QValue(flux_model, j)
            IN -((500 * det_error * det_error)
                   \div (obs_flux_err[j] * obs_flux_err[j]))
               - HalfLogNorm[obs_flux_err[j]]
        lim(j) ==
            IF obs_limits[j]
            THEN upper_limit_term(QValue(flux_model, j), obs_flux[j], obs_flux_err[j])
            ELSE Fin(0)
    IN IF flux_model.k # "Quantity" THEN flux_model
       ELSE FAdd(Fin(SumSeq([j \in 1..N |-> det(j)])),
                 FSumSeq([j \in 1..N |-> lim(j)]))

log_likelihood(theta, obs_wave, obs_flux, obs_flux_err, obs_limits, kappa_interp, redshift, distance, n_components) ==
    LET flux_model == model_flux(theta, obs_wave, obs_flux, kappa_interp,
                                 redshift, distance, n_components)
        N == Len(obs_flux)
        det(j) ==
            IF obs_limits[j] THEN 0
            ELSE LET det_error == obs_flux[j] - QValue(flux_model, j)
                 IN -((500 * det_error * det_error)
                        \div (obs_flux_err[j] * obs_flux_err[j]))
                    - HalfLogNorm[obs_flux_err[j]]
        lim(j) ==
            IF obs_limits[j]
            THEN upper_limit_term(QValue(flux_model, j), obs_flux[j], obs_flux_err[j])
            ELSE Fin(0)
    IN IF flux_model.k # "Quantity" THEN flux_model
       ELSE FAdd(Fin(SumSeq([j \in 1..N |-> det(j)])),
                 FSumSeq([j \in 1..N |-> lim(j)]))

-----------------------------------------------------------------------------
(* The posterior.  The result carries the functions the call invoked. *)

Data(obs_wave, obs_flux, obs_flux_err, obs_limits, kappa_interp, redshift, distance) ==
    [obs_wave |-> obs_wave, obs_flux |-> obs_flux, obs_flux_err |-> obs_flux_err,
     obs_limits |-> obs_limits, kappa_interp |-> kappa_interp,
     redshift |-> redshift, distance |-> distance]

LogLike(theta, d, n_components) ==
    log_likelihood(theta, d.obs_wave, d.obs_flux, d.obs_flux_err, d.obs_limits,
                   d.kappa_interp, d.redshift, d.distance, n_components)

\* log_probability evaluating the likelihood whatever the prior.
log_probability_eager(theta, d, n_components) ==
    LET lp == log_prior(theta, n_components)
    IN IF lp.k = "ValueError"
       THEN [ret |-> lp, calls |-> <<"log_prior">>]
       ELSE [ret |-> IF ~isfinite(lp) THEN NegInf
                     ELSE FAdd(lp, LogLike(theta, d, n_components)),
             calls |-> <<"log_prior", "log_likelihood">>]

log_probability(theta, d, n_components) ==
    LET lp == log_prior(theta, n_components)
    IN IF lp.k = "ValueError"
       THEN [ret |-> lp, calls |-> <<"log_prior">>]
       ELSE IF ~isfinite(lp)
       THEN [ret |-> NegInf, calls |-> <<"log_prior">>]
       ELSE [ret |-> FAdd(lp, LogLike(theta, d, n_components)),
             calls |-> <<"log_prior", "log_likelihood">>]

-----------------------------------------------------------------------------
(* Calls of the pure functions: each action applies one function to inputs *)
(* drawn from a small set and records the inputs and the result in call.   *)
(* A behaviour makes one call.                                             *)

NoCall == [fn |-> "none"]

\* Values on, next to and between the two ends of a prior interval, and NaN
Around(bounds) ==
    {Fin(bounds[1] + e) : e \in {-1, 0, 1}} \cup {Fin(bounds[2] + e) : e \in {-1, 0, 1}}
        \cup {NaN}

PriorThetas(n_components) ==
    IF n_components = 2
    THEN Around(priors.log_dust_mass_cold) \X Around(priors.temp_cold)
            \X Around(priors.log_dust_mass_hot) \X Around(priors.temperature_hot)
    ELSE Around(priors.log_dust_mass_cold) \X Around(priors.temp_cold)

Call_log_prior ==
    /\ call = NoCall
    /\ UNCHANGED fitvars
    /\ \E n_components \in {1, 2, 3} :
        \E theta \in PriorThetas(n_components) :
            call' = [fn |-> "log_prior", theta |-> theta,
                     n_components |-> n_components,
                     ret |-> log_prior(theta, n_components)]

\* Observation sets: point j is observed at 2j microns; the opacity on the
\* grid is 1 everywhere and the distance is 1.
MaxObs == 2
MaxFlux == 9
ErrVals == {1, 2}
Redshifts == {0, 1}

ObsSets(N) ==
    {Data([j \in 1..N |-> 2 * j], obs_flux, obs_flux_err, obs_limits,
          [j \in 1..N |-> 1], redshift, 1) :
        obs_flux \in [1..N -> 0..MaxFlux],
        obs_flux_err \in [1..N -> ErrVals],
        obs_limits \in [1..N -> BOOLEAN],
        redshift \in Redshifts}

\* Finite thetas for the forward model (10 ^ log-mass is an integer for them)
LikeThetas(n_components) ==
    IF n_components = 2
    THEN {<<Fin(0), Fin(100), Fin(0), Fin(300)>>, <<Fin(0), Fin(100), Fin(1), Fin(300)>>}
    ELSE {<<Fin(0), Fin(100)>>, <<Fin(0), Fin(300)>>, <<Fin(1), Fin(100)>>}

Call_log_likelihood ==
    /\ call = NoCall
    /\ UNCHANGED fitvars
    /\ \E n_components \in {1, 2} :
        \E theta \in LikeThetas(n_components), N \in 1..MaxObs : \E d \in ObsSets(N) :
            call' = [fn |-> "log_likelihood", theta |-> theta, d |-> d,
                     n_components |-> n_components,
                     ret |-> LogLike(theta, d, n_components)]

\* Thetas for the posterior: inside the prior box, on its edge and outside it,
\* and two-component thetas in both temperature orders
ProbThetas(n_components) ==
    IF n_components = 2
    THEN {Fin(0), Fin(1)} \X {Fin(20), Fin(100), Fin(300)}
            \X {Fin(0), Fin(1)} \X {Fin(100), Fin(300)}
    ELSE {Fin(0), Fin(1)} \X {Fin(20), Fin(100), Fin(300)}

ProbData(N) ==
    {Data([j \in 1..N |-> 2 * j], obs_flux, [j \in 1..N |-> 1], obs_limits,
          [j \in 1..N |-> 1], 0, 1) :
        obs_flux \in [1..N -> {0, MaxFlux}],
        obs_limits \in [1..N -> BOOLEAN]}

Call_log_probability ==
    /\ call = NoCall
    /\ UNCHANGED fitvars
    /\ \E n_components \in {1, 2} :
        \E theta \in ProbThetas(n_components), d \in ProbData(MaxObs) :
            LET r == log_probability(theta, d, n_components)
            IN call' = [fn |-> "log_probability", theta |-> theta, d |-> d,
                        n_components |-> n_components,
                        ret |-> r.ret, calls |-> r.calls]

\* Luminosities: per Hz, per Angstrom, a Quantity of another unit, and a bare
\* array
MaxRedshift == 2
MaxDistance == 2
MaxLum == 3
LumKinds ==
    {Quantity("erg/s/Hz", <<>>), Quantity("erg/s/AA", <<>>),
     Quantity("erg/s", <<>>), Bare(<<>>)}

Call_calc_flux ==
    /\ call = NoCall
    /\ UNCHANGED fitvars
    /\ \E kind \in LumKinds, L \in 1..MaxLum, w \in 1..2,
       distance \in 1..MaxDistance, redshift \in 0..MaxRedshift,
       output_units \in {"Jy", "nu", "lambda", "mJy"} :
        LET luminosity == [kind EXCEPT !.val = <<<<L, 1>>>>]
        IN call' = [fn |-> "calc_flux", rest_wave |-> <<w>>,
                    luminosity |-> luminosity, distance |-> distance,
                    redshift |-> redshift, output_units |-> output_units,
                    flux_in |-> calc_flux_in(luminosity, distance, redshift),
                    ret |-> calc_flux(<<w>>, luminosity, distance, redshift,
                                      output_units)]

None == [k |-> "None", v |-> 0]

\* No invocation of fit_dust_model
FitIdle ==
    /\ pc = "idle" /\ args = None /\ np_seed = "entropy"
    /\ pos_in = <<>> /\ pos_out = <<>> /\ pos = <<>>
    /\ sampler = None /\ chain = <<>> /\ cycle = 0
    /\ samples_crop = <<>> /\ results = None /\ err = None

InitCalls == call = NoCall /\ FitIdle

NextPrior == Call_log_prior \/ Call_log_probability
SpecPrior == InitCalls /\ [][NextPrior]_vars

NextLike == Call_log_likelihood
SpecLike == InitCalls /\ [][NextLike]_vars

NextFlux == Call_calc_flux
SpecFlux == InitCalls /\ [][NextFlux]_vars

-----------------------------------------------------------------------------
(* fit_dust_model and mcmc_with_sigma_clipping.                            *)
(*                                                                         *)
(* A position is a tuple of n_dim floats, an ensemble a sequence of        *)
(* n_walkers positions, and sampler.chain a sequence of recorded steps     *)
(* [cycle, step, pos]: pos is the ensemble after the step, cycle and step  *)
(* say which run recorded it and where in the run.                         *)
(*                                                                         *)
(* The emcee sampler and numpy's generator are outside the repository:    *)
(* what a run of the sampler records is any sequence of ensembles, which   *)
(* the model draws from a small family of shapes, and what numpy's         *)
(* generator returns is drawn from small sets as well.  A scenario S names *)
(* the sets:                                                               *)
(*   S.args    the arguments an invocation may have                        *)
(*   S.shapes  the shapes of ensemble a run may record                     *)
(***************************************************************************)

n_dim_of(n_components) == 2 * n_components

\* Walker positions the sampler may record: two finite ones that differ in
\* the cold temperature, and one with a non-finite coordinate
PosA(n_dim) == [d \in 1..n_dim |-> Fin(<<-3, 100, -2, 500>>[d])]
PosB(n_dim) == [d \in 1..n_dim |-> Fin(<<-3, 160, -2, 500>>[d])]
PosNaN(n_dim) == [d \in 1..n_dim |-> IF d = 1 THEN NaN ELSE PosA(n_dim)[d]]

\* The ensemble shapes
Shape(name, n, n_dim) ==
    [w \in 1..n |->
        CASE name = "tight" -> PosA(n_dim)
          [] name = "split" -> IF w % 2 = 1 THEN PosA(n_dim) ELSE PosB(n_dim)
          [] name = "outlier" -> IF w = n THEN PosB(n_dim) ELSE PosA(n_dim)
          [] name = "nan" -> IF w = 1 THEN PosNaN(n_dim) ELSE PosA(n_dim)
          [] name = "nan_outlier" ->
                IF w = 1 THEN PosNaN(n_dim)
                ELSE IF w = n THEN PosB(n_dim) ELSE PosA(n_dim)
          [] OTHER -> PosNaN(n_dim)]

AllShapes == {"tight", "split", "outlier", "nan", "nan_outlier", "all_nan"}

\* What one run of n_steps steps may record: the ensemble of its last step
\* and the ensemble of the steps before it
RunOutputs(S, n, n_dim, n_steps) ==
    {[k \in 1..n_steps |-> IF k = n_steps THEN Shape(last, n, n_dim)
                           ELSE Shape(early, n, n_dim)] :
        early \in S.shapes \cap {"tight", "nan"}, last \in S.shapes}

\* np.random.uniform over the box, one position per walker: a position
\* inside the prior, and one that log_prior rejects (on the lower edge of the
\* log-mass interval, or with the hot temperature below the cold one)
DrawnPositions(n_components, initial_pos) ==
    LET inside == [d \in 1..n_dim_of(n_components) |-> Fin(<<-3, 100, -3, 500>>[d])]
        rejected ==
            IF n_components = 1 THEN <<Fin(-6), Fin(100)>>
            ELSE <<Fin(-3), Fin(500), Fin(-3), Fin(100)>>
        beyond == [d \in 1..n_dim_of(n_components) |-> Fin(<<-3, 2400, -3, 2900>>[d])]
    IN IF initial_pos = "hot_box" THEN {beyond}
       ELSE {inside, rejected}

\* np.random.choice(valid_indices), for a non-empty valid_indices
Choices(valid_indices) == valid_indices

\* np.random.normal(0, 1e-4, n_dim): the deviate is any real; the model
\* draws whole units of the positions
MaxNoise == 1
JitterVecs(n_dim) ==
    {[d \in 1..n_dim |-> e] : e \in -MaxNoise..MaxNoise}

\* np.random.normal(0, stds[dim] / sigma_clip) for every dimension: small
\* deviates, and a large one in the cold temperature
NoiseVecs(n_dim) ==
    JitterVecs(n_dim)
        \cup {[d \in 1..n_dim |-> IF d = 2 THEN 40 * MaxNoise ELSE 0]}

AddNoise(p, v) == [d \in DOMAIN p |-> FAdd(p[d], Fin(v[d]))]

-----------------------------------------------------------------------------
(* INIT: fit_dust_model up to the construction of the sampler *)

\* fit_dust_model is entered with arguments a: the generator is seeded, the
\* grids are set up and create_prior draws pos_in, or raises.
Enter(a) ==
    /\ args' = a
    /\ np_seed' = "seed 42"
    /\ sampler' = None /\ chain' = <<>> /\ cycle' = 0
    /\ samples_crop' = <<>> /\ results' = None /\ pos' = <<>>
    /\ IF a.n_components \notin {1, 2}
       THEN /\ pc' = "raised"
            /\ err' = [type |-> "ValueError", from |-> "create_prior"]
            /\ pos_in' = <<>> /\ pos_out' = <<>>
       ELSE /\ \E drawn \in [1..a.n_walkers ->
                    DrawnPositions(a.n_components, a.initial_pos)] :
                /\ pos_in' = drawn
                /\ pos_out' = SubSeq(drawn, 1, 1)
            /\ pc' = "init"
            /\ err' = None

Invoke(S) ==
    /\ pc = "idle"
    /\ \E a \in S.args : Enter(a)
    /\ UNCHANGED call

\* One iteration of  while len(pos_out) < n_walkers
InitLoop ==
    /\ pc = "init"
    /\ Len(pos_out) < args.n_walkers
    /\ LET finite_prior(p) == isfinite(log_prior(p, args.n_components))
       IN /\ pos' = SelectSeq(pos_in, finite_prior)
          /\ pos_out' = pos_out \o SelectSeq(pos_in, finite_prior)
    /\ UNCHANGED <<call, pc, args, np_seed, pos_in, sampler, chain, cycle,
                   samples_crop, results, err>>

\* The loop has ended: crop, and construct the sampler
InitCrop ==
    /\ pc = "init"
    /\ Len(pos_out) >= args.n_walkers
    /\ pos' = IF Len(pos_out) # args.n_walkers
              THEN SubSeq(pos_out, 2, args.n_walkers + 1)
              ELSE pos_out
    /\ sampler' = [n_walkers |-> args.n_walkers,
                    n_dim |-> n_dim_of(args.n_components)]
    /\ pc' = "run"
    /\ UNCHANGED <<call, args, np_seed, pos_in, pos_out, chain, cycle,
                   samples_crop, results, err>>

-----------------------------------------------------------------------------
(* mcmc_with_sigma_clipping *)

\* The runs mcmc_with_sigma_clipping makes: the first, and one per
\* iteration of  for i in range(repeats - 1)
TotalRuns(repeats) == IF repeats > 1 THEN repeats ELSE 1

\* A run of a sampler that forgets the steps of the runs before
Run_forgetting(S) ==
    /\ pc = "run"
    /\ \E out \in RunOutputs(S, args.n_walkers, n_dim_of(args.n_components),
                             args.n_steps) :
        chain' = [k \in 1..args.n_steps |->
                     [cycle |-> cycle + 1, step |-> k, pos |-> out[k]]]
    /\ cycle' = cycle + 1
    /\ pos' = <<>>
    /\ pc' = IF cycle + 1 >= TotalRuns(args.repeats) THEN "summarize" ELSE "check"
    /\ UNCHANGED <<call, args, np_seed, pos_in, pos_out, sampler,
                   samples_crop, results, err>>

\* no_warnings(sampler, pos, n_steps): the sampler records n_steps steps
Run(S) ==
    /\ pc = "run"
    /\ \E out \in RunOutputs(S, args.n_walkers, n_dim_of(args.n_components),
                             args.n_steps) :
        chain' = chain \o [k \in 1..args.n_steps |->
                              [cycle |-> cycle + 1, step |-> k, pos |-> out[k]]]
    /\ cycle' = cycle + 1
    /\ pos' = <<>>
    /\ pc' = IF cycle + 1 >= TotalRuns(args.repeats) THEN "summarize" ELSE "check"
    /\ UNCHANGED <<call, args, np_seed, pos_in, pos_out, sampler,
                   samples_crop, results, err>>

\* np.any(~np.isfinite(last_pos), axis=1)
invalid_mask(last_pos) ==
    {w \in DOMAIN last_pos : \E d \in DOMAIN last_pos[w] : ~isfinite(last_pos[w][d])}

Column(last_pos, d) == [w \in DOMAIN last_pos |-> last_pos[w][d].v]

\* Twice np.median of a sequence of integers
Median2(xs) ==
    LET sorted == SortSeq(xs, LAMBDA a, b : a < b)
        n == Len(xs)
    IN IF n % 2 = 1 THEN 2 * sorted[(n + 1) \div 2]
       ELSE sorted[n \div 2] + sorted[n \div 2 + 1]

\* n^2 times the variance np.std squares: n * sum(x^2) - sum(x)^2
VarN2(xs) ==
    Len(xs) * SumSeq([i \in DOMAIN xs |-> xs[i] * xs[i]]) - SumSeq(xs) * SumSeq(xs)

\* abs(x - median) <= sigma_clip * std
within_clip_le(xs, x, sigma_clip) ==
    IF VarN2(xs) = 0 THEN 2 * x = Median2(xs)
    ELSE (2 * x - Median2(xs)) * (2 * x - Median2(xs)) * Len(xs) * Len(xs)
            <= 4 * sigma_clip * sigma_clip * VarN2(xs)

\* abs(x - median) < sigma_clip * std, with std = max(np.std, 1e-10): for
\* integer positions the floor applies exactly when the variance is 0, and
\* then the test holds exactly when x is the median
within_clip(xs, x, sigma_clip) ==
    IF VarN2(xs) = 0 THEN 2 * x = Median2(xs)
    ELSE (2 * x - Median2(xs)) * (2 * x - Median2(xs)) * Len(xs) * Len(xs)
            < 4 * sigma_clip * sigma_clip * VarN2(xs)

\* np.all(np.abs(last_pos - medians) < sigma_clip * stds, axis=1)
valid_walkers(last_pos, sigma_clip) ==
    {w \in DOMAIN last_pos :
        \A d \in DOMAIN last_pos[w] :
            within_clip(Column(last_pos, d), last_pos[w][d].v, sigma_clip)}

\* CHECK/REPAIR drawing a new position for every walker once one is flagged
CheckRepair_redraws_all ==
    /\ pc = "check"
    /\ LET last_pos == chain[Len(chain)].pos
           n_dim == n_dim_of(args.n_components)
           walkers == 1..args.n_walkers
           invalid == invalid_mask(last_pos)
           valid_indices == walkers \ invalid
       IN IF invalid # {} /\ valid_indices = {}
          THEN /\ pc' = "raised"
               /\ err' = [type |-> "ValueError", from |-> "np.random.choice"]
               /\ UNCHANGED <<chain, pos>>
          ELSE \E fix \in [invalid -> Choices(valid_indices) \X JitterVecs(n_dim)] :
                LET repaired ==
                        [w \in walkers |->
                            IF w \in invalid
                            THEN AddNoise(last_pos[fix[w][1]], fix[w][2])
                            ELSE last_pos[w]]
                    keep == valid_walkers(repaired, args.sigma_clip)
                    outliers == walkers \ keep
                IN /\ chain' = [chain EXCEPT ![Len(chain)].pos = repaired]
                   /\ IF outliers = {}
                      THEN /\ pos' = repaired
                           /\ pc' = "run"
                           /\ err' = None
                      ELSE IF keep = {}
                      THEN /\ pc' = "raised"
                           /\ err' = [type |-> "ValueError",
                                      from |-> "np.random.choice"]
                           /\ pos' = <<>>
                      ELSE \E new \in [walkers -> Choices(keep) \X NoiseVecs(n_dim)] :
                            /\ pos' = [w \in walkers |->
                                          AddNoise(repaired[new[w][1]], new[w][2])]
                            /\ pc' = "run"
                            /\ err' = None
    /\ UNCHANGED <<call, args, np_seed, pos_in, pos_out, sampler, cycle,
                   samples_crop, results>>

\* One iteration of the loop of mcmc_with_sigma_clipping up to its call of
\* the sampler: the repair of non-finite walkers, written through last_pos
\* (a view of the chain's last step) into the chain, then the sigma clip.
\* np.random.choice raises ValueError on an empty valid_indices.
CheckRepair ==
    /\ pc = "check"
    /\ LET last_pos == chain[Len(chain)].pos
           n_dim == n_dim_of(args.n_components)
           walkers == 1..args.n_walkers
           invalid == invalid_mask(last_pos)
           valid_indices == walkers \ invalid
       IN IF invalid # {} /\ valid_indices = {}
          THEN /\ pc' = "raised"
               /\ err' = [type |-> "ValueError", from |-> "np.random.choice"]
               /\ UNCHANGED <<chain, pos>>
          ELSE \E fix \in [invalid -> Choices(valid_indices) \X JitterVecs(n_dim)] :
                LET repaired ==
                        [w \in walkers |->
                            IF w \in invalid
                            THEN AddNoise(last_pos[fix[w][1]], fix[w][2])
                            ELSE last_pos[w]]
                    keep == valid_walkers(repaired, args.sigma_clip)
                    outliers == walkers \ keep
                IN /\ chain' = [chain EXCEPT ![Len(chain)].pos = repaired]
                   /\ IF outliers = {}
                      THEN /\ pos' = repaired
                           /\ pc' = "run"
                           /\ err' = None
                      ELSE IF keep = {}
                      THEN /\ pc' = "raised"
                           /\ err' = [type |-> "ValueError",
                                      from |-> "np.random.choice"]
                           /\ pos' = <<>>
                      ELSE \E new \in [outliers -> Choices(keep) \X NoiseVecs(n_dim)] :
                            /\ pos' = [w \in walkers |->
                                          IF w \in outliers
                                          THEN AddNoise(repaired[new[w][1]], new[w][2])
                                          ELSE repaired[w]]
                            /\ pc' = "run"
                            /\ err' = None
    /\ UNCHANGED <<call, args, np_seed, pos_in, pos_out, sampler, cycle,
                   samples_crop, results>>

-----------------------------------------------------------------------------
(* The summarizer *)

\* burn_in is args.burn_in / BurnDen
BurnDen == 4

\* int(n_steps * (1 - burn_in))
retained_steps(n_steps, burn_in) == (n_steps * (BurnDen - burn_in)) \div BurnDen

\* chain[:, -k:]: Python's slice from -k, which is the whole chain for k = 0
LastSteps(c, k) ==
    IF k = 0 \/ k >= Len(c) THEN c ELSE SubSeq(c, Len(c) - k + 1, Len(c))

\* The steps retained when repeats > 1, off by one step
crop_one_more(c, a) ==
    IF a.repeats > 1 THEN LastSteps(c, a.n_steps + 1)
    ELSE LastSteps(c, retained_steps(a.n_steps, a.burn_in))

\* samples_crop, before the reshape
crop(c, a) ==
    IF a.repeats > 1 THEN LastSteps(c, a.n_steps)
    ELSE LastSteps(c, retained_steps(a.n_steps, a.burn_in))

\* samples_crop[:, d]: the retained samples of parameter d, walker by walker
Flat(steps, n_walkers, d) ==
    [i \in 1..(n_walkers * Len(steps)) |->
        steps[((i - 1) % Len(steps)) + 1].pos[((i - 1) \div Len(steps)) + 1][d]]

\* np.percentile(xs, q) for q = q100 / 100, times 10000, by linear
\* interpolation between the two nearest ranks; NaN when a sample is
\* not finite
Percentile(xs, q100) ==
    IF \E i \in DOMAIN xs : ~isfinite(xs[i]) THEN NaN
    ELSE LET sorted == SortSeq([i \in DOMAIN xs |-> xs[i].v], LAMBDA a, b : a < b)
             at == q100 * (Len(xs) - 1)
             lo == at \div 10000 + 1
             hi == IF lo < Len(xs) THEN lo + 1 ELSE lo
         IN Fin(10000 * sorted[lo] + (at % 10000) * (sorted[hi] - sorted[lo]))

\* (v[1], v[2] - v[1], v[1] - v[0]) of the 15.87, 50 and 84.13 percentiles
Summary(xs) ==
    LET v0 == Percentile(xs, 1587)
        v1 == Percentile(xs, 5000)
        v2 == Percentile(xs, 8413)
    IN <<v1, FSub(v2, v1), FSub(v1, v0)>>

\* 10 ** log_mass, in units of 1e-5 solar masses
DustMass(log_mass) ==
    IF isfinite(log_mass) THEN Fin(10 ^ (log_mass.v + 5)) ELSE NaN

ParamNames == <<"log_dust_mass_cold", "temp_cold", "log_dust_mass_hot", "temperature_hot">>

\* The result mapping, in the order of its keys
MakeResults(steps, a) ==
    LET n_dim == n_dim_of(a.n_components)
        logm(d) == Flat(steps, a.n_walkers, d)
        total ==
            [i \in 1..(a.n_walkers * Len(steps)) |->
                IF a.n_components = 1 THEN DustMass(logm(1)[i])
                ELSE FAdd(DustMass(logm(1)[i]), DustMass(logm(3)[i]))]
    IN [d \in 1..n_dim |-> <<ParamNames[d], Summary(Flat(steps, a.n_walkers, d))>>]
        \o <<<<"total_dust_mass", Summary(total)>>>>

\* fit_dust_model after mcmc_with_sigma_clipping has returned
Summarize ==
    /\ pc = "summarize"
    /\ samples_crop' = crop(chain, args)
    /\ results' = MakeResults(crop(chain, args), args)
    /\ pc' = "done"
    /\ UNCHANGED <<call, args, np_seed, pos_in, pos_out, pos, sampler, chain,
                   cycle, err>>

InitFit == call = NoCall /\ FitIdle

-----------------------------------------------------------------------------
(* Specifications of the fit *)

MaxWalkers == 3
MaxSteps == 2
MaxRepeats == 2
SigmaClips == {1, 2}

Args(n_components, n_walkers, n_steps, burn_in, sigma_clip, repeats, initial_pos) ==
    [n_components |-> n_components, n_walkers |-> n_walkers, n_steps |-> n_steps,
     burn_in |-> burn_in, sigma_clip |-> sigma_clip, repeats |-> repeats,
     initial_pos |-> initial_pos]

\* The default burn_in of 0.75
DefaultBurnIn == (3 * BurnDen) \div 4

\* Two runs with one CHECK/REPAIR between them, for every n_components,
\* ensemble size, sigma_clip and kind of initial_pos
ClipArgs ==
    {Args(n_components, n_walkers, 1, DefaultBurnIn, sigma_clip, 2, initial_pos) :
        n_components \in {1, 2, 3}, n_walkers \in 1..MaxWalkers,
        sigma_clip \in SigmaClips, initial_pos \in {"None", "hot_box"}}

\* Two or more runs of every length
CycleArgs ==
    {Args(1, n_walkers, n_steps, DefaultBurnIn, 2, repeats, "None") :
        n_walkers \in 1..2, n_steps \in 1..MaxSteps, repeats \in 2..MaxRepeats}

\* Single runs (repeats 0 or 1) of every length and every burn_in
MaxSingleSteps == 4
SingleRunArgs ==
    {Args(1, n_walkers, n_steps, burn_in, 2, repeats, "None") :
        n_walkers \in 1..2, n_steps \in 1..MaxSingleSteps,
        burn_in \in 0..BurnDen, repeats \in {0, 1}}

FitArgs == ClipArgs \cup CycleArgs \cup SingleRunArgs

FitScenario == [args |-> FitArgs, shapes |-> AllShapes]

Next ==
    \/ Invoke(FitScenario)
    \/ InitLoop
    \/ InitCrop
    \/ Run(FitScenario)
    \/ CheckRepair
    \/ Summarize

Spec == InitFit /\ [][Next]_vars

-----------------------------------------------------------------------------
(* compare_models, in milli-nats.  The opacity on the grid is the same for *)
(* both compositions, and no filters are given.                            *)

\* 1000 * np.log(n_data)
LnMilliTable == <<0, 693, 1099, 1386, 1609, 1792>>
LnMilli(n) == IF n = 0 THEN NegInf ELSE Fin(LnMilliTable[n])

\* [results[key][0] for key in results.keys()][:-1]
best_params(res) == [i \in 1..(Len(res) - 1) |-> res[i][2][1]]

\* The verdict messages printed
Verdict(delta_aic, delta_bic) ==
    IF FGt(delta_aic, Fin(0)) /\ FGt(delta_bic, Fin(0))
    THEN <<"Both AIC and BIC favor the 2-component model.">>
    ELSE IF FGt(delta_aic, Fin(0)) /\ FLe(delta_bic, Fin(0))
    THEN <<"AIC favors the 2-component model, but BIC favors the 1-component model.">>
    ELSE IF FLe(delta_aic, Fin(0)) /\ FLe(delta_bic, Fin(0))
    THEN <<"Both AIC and BIC favor the 1-component model.">>
    ELSE <<>>

\* The metrics compare_models computes from the two log-likelihoods
metrics(log_like_1, log_like_2, n_params_1, n_params_2, n_data) ==
    LET aic_1comp == FSub(Fin(2000 * n_params_1), FScale(2, log_like_1))
        aic_2comp == FSub(Fin(2000 * n_params_2), FScale(2, log_like_2))
        delta_aic == FSub(aic_1comp, aic_2comp)
        bic_1comp == FSub(FScale(n_params_1, LnMilli(n_data)), FScale(2, log_like_1))
        bic_2comp == FSub(FScale(n_params_2, LnMilli(n_data)), FScale(2, log_like_2))
        delta_bic == FSub(bic_1comp, bic_2comp)
    IN [log_like_1 |-> log_like_1, log_like_2 |-> log_like_2,
        aic_1comp |-> aic_1comp, aic_2comp |-> aic_2comp, delta_aic |-> delta_aic,
        bic_1comp |-> bic_1comp, bic_2comp |-> bic_2comp, delta_bic |-> delta_bic,
        printed |-> Verdict(delta_aic, delta_bic)]

\* compare_models with n_data given
compare_with(d, results_1, results_2, n_data) ==
    metrics(LogLike(best_params(results_1), d, 1),
            LogLike(best_params(results_2), d, 2),
            Len(best_params(results_1)), Len(best_params(results_2)), n_data)

\* n_data counting the detections only
compare_models_detections(d, results_1, results_2) ==
    compare_with(d, results_1, results_2,
                 Cardinality({j \in DOMAIN d.obs_limits : ~d.obs_limits[j]}))

\* n_data = len(obs_flux)
compare_models(d, results_1, results_2) ==
    compare_with(d, results_1, results_2, Len(d.obs_flux))

\* A result mapping whose medians are theta (in the units of theta)
ResultsOf(theta) ==
    [i \in 1..Len(theta) |-> <<ParamNames[i], <<theta[i], Fin(0), Fin(0)>>>>]
        \o <<<<"total_dust_mass", <<Fin(1), Fin(0), Fin(0)>>>>>>

\* Observation sets for the comparison
CompareData(N) ==
    {Data([j \in 1..N |-> 2 * j], obs_flux, [j \in 1..N |-> 1], obs_limits,
          [j \in 1..N |-> 1], 0, 1) :
        obs_flux \in [1..N -> {0, 1, MaxFlux}],
        obs_limits \in [1..N -> BOOLEAN]}

Call_compare_models ==
    /\ call = NoCall
    /\ UNCHANGED fitvars
    /\ \E theta_1 \in LikeThetas(1), theta_2 \in LikeThetas(2), N \in 1..MaxObs :
        \E d \in CompareData(N) :
            call' = [fn |-> "compare_models", d |-> d,
                     results_1 |-> ResultsOf(theta_1),
                     results_2 |-> ResultsOf(theta_2),
                     ret |-> compare_models(d, ResultsOf(theta_1), ResultsOf(theta_2))]

NextCompare == Call_compare_models
SpecCompare == InitCalls /\ [][NextCompare]_vars

-----------------------------------------------------------------------------
(* Filter bandpasses.  obs_wave_filters and obs_trans_filters are None or  *)
(* a bank [k |-> "bank", v |-> one sequence per observation]; the          *)
(* wavelengths of a bandpass are consecutive integers.                     *)
(***************************************************************************)

Bank(v) == [k |-> "bank", v |-> v]

MinOf(xs) == CHOOSE x \in {xs[i] : i \in DOMAIN xs} : \A i \in DOMAIN xs : x <= xs[i]
MaxOf(xs) == CHOOSE x \in {xs[i] : i \in DOMAIN xs} : \A i \in DOMAIN xs : x >= xs[i]

\* interpolate_kappa(wave_kappa, kappa, rest_wave): the opacity table on the
\* grid rest_wave; the table is flat
interpolate_kappa(rest_wave) == [i \in DOMAIN rest_wave |-> 1]

\* calc_filter_flux(model_wave, model_flux, filter_wave, filter_trans): the
\* transmission-weighted mean of the model spectrum over the points of the
\* model grid that lie within the bandpass
calc_filter_flux(model_wave, flux, filter_wave, filter_trans) ==
    LET overlap == {i \in DOMAIN model_wave :
                        \E k \in DOMAIN filter_wave : filter_wave[k] = model_wave[i]}
        trans(i) == filter_trans[CHOOSE k \in DOMAIN filter_wave :
                                    filter_wave[k] = model_wave[i]]
        grid == [i \in DOMAIN model_wave |-> IF i \in overlap THEN i ELSE 0]
    IN <<SumSeq([i \in DOMAIN grid |-> IF grid[i] = 0 THEN 0 ELSE trans(i) * flux[i]]),
         SumSeq([i \in DOMAIN grid |-> IF grid[i] = 0 THEN 0 ELSE trans(i)])>>

\* model_flux with its filter arguments: the spectrum on obs_wave, put
\* through the bandpasses when there are any
model_flux_filters(theta, obs_wave, obs_flux, kappa_interp, redshift, distance, n_components, obs_wave_filters, obs_trans_filters) ==
    LET flux == model_flux(theta, obs_wave, obs_flux, kappa_interp, redshift,
                           distance, n_components)
    IN IF flux.k # "Quantity" THEN flux
       ELSE IF obs_wave_filters.k # "None"
       THEN Quantity("Jy",
                [i \in DOMAIN obs_wave_filters.v |->
                    calc_filter_flux(obs_wave,
                                     [j \in DOMAIN obs_wave |-> QValue(flux, j)],
                                     obs_wave_filters.v[i], obs_trans_filters.v[i])])
       ELSE flux

\* log_likelihood with its filter arguments
log_likelihood_filters(theta, obs_wave, obs_flux, obs_flux_err, obs_limits, kappa_interp, redshift, distance, n_components, obs_wave_filters, obs_trans_filters) ==
    LET flux_model == model_flux_filters(theta, obs_wave, obs_flux, kappa_interp,
                                         redshift, distance, n_components,
                                         obs_wave_filters, obs_trans_filters)
        N == Len(obs_flux)
        det(j) ==
            IF obs_limits[j] THEN 0
            ELSE LET det_error == obs_flux[j] - QValue(flux_model, j)
                 IN -((500 * det_error * det_error)
                        \div (obs_flux_err[j] * obs_flux_err[j]))
                    - HalfLogNorm[obs_flux_err[j]]
        lim(j) ==
            IF obs_limits[j]
            THEN upper_limit_term(QValue(flux_model, j), obs_flux[j], obs_flux_err[j])
            ELSE Fin(0)
    IN IF flux_model.k # "Quantity" THEN flux_model
       ELSE FAdd(Fin(SumSeq([j \in 1..N |-> det(j)])),
                 FSumSeq([j \in 1..N |-> lim(j)]))

\* np.linspace(min_wave, max_wave, n_filter_samples), exact for the sample
\* counts the model draws
linspace(min_wave, max_wave, n_filter_samples) ==
    [i \in 1..n_filter_samples |->
        min_wave + ((i - 1) * (max_wave - min_wave)) \div (n_filter_samples - 1)]

\* The wavelength grid and the opacities fit_dust_model hands to the sampler
fit_grid(obs_wave, redshift, obs_wave_filters, n_filter_samples) ==
    IF obs_wave_filters.k # "None"
    THEN LET mins == [i \in DOMAIN obs_wave_filters.v |-> MinOf(obs_wave_filters.v[i])]
             maxs == [i \in DOMAIN obs_wave_filters.v |-> MaxOf(obs_wave_filters.v[i])]
             sampled_waves == linspace(MinOf(mins), MaxOf(maxs), n_filter_samples)
             rest_wave == [i \in DOMAIN sampled_waves |->
                              sampled_waves[i] \div (1 + redshift)]
         IN [obs_wave_samples |-> sampled_waves,
             kappa_interp |-> interpolate_kappa(rest_wave)]
    ELSE [obs_wave_samples |-> obs_wave,
          kappa_interp |-> interpolate_kappa(
                              [i \in DOMAIN obs_wave |-> obs_wave[i] \div (1 + redshift)])]

\* The log-likelihood the sampler of fit_dust_model evaluates at theta
fit_log_likelihood(theta, d, n_components, obs_wave_filters, obs_trans_filters, n_filter_samples) ==
    LET g == fit_grid(d.obs_wave, d.redshift, obs_wave_filters, n_filter_samples)
    IN log_likelihood_filters(theta, g.obs_wave_samples, d.obs_flux, d.obs_flux_err,
                              d.obs_limits, g.kappa_interp, d.redshift, d.distance,
                              n_components, obs_wave_filters, obs_trans_filters)

\* The log-likelihood compare_models computes at theta
compare_log_likelihood(theta, d, n_components, obs_wave_filters, obs_trans_filters) ==
    LET obs_wave_rest == [i \in DOMAIN d.obs_wave |-> d.obs_wave[i] \div (1 + d.redshift)]
        kappa_interp == interpolate_kappa(obs_wave_rest)
    IN log_likelihood_filters(theta, d.obs_wave, d.obs_flux, d.obs_flux_err,
                              d.obs_limits, kappa_interp, d.redshift, d.distance,
                              n_components, obs_wave_filters, obs_trans_filters)

\* Filter banks for N observations at the wavelengths 2, 4, ...: bandpasses
\* of one wavelength, and of three with the observed one in the middle
FilterBanks(N) ==
    {[wave |-> None, trans |-> None],
     [wave |-> Bank([j \in 1..N |-> <<2 * j>>]),
      trans |-> Bank([j \in 1..N |-> <<1>>])],
     [wave |-> Bank([j \in 1..N |-> <<2 * j - 1, 2 * j, 2 * j + 1>>]),
      trans |-> Bank([j \in 1..N |-> <<1, 1, 1>>])],
     [wave |-> Bank([j \in 1..N |-> <<2 * j - 1, 2 * j, 2 * j + 1>>]),
      trans |-> Bank([j \in 1..N |-> <<1, 2, 1>>])]}

\* The sample counts for which the grid of a bank is of whole wavelengths
SampleCounts(bank) ==
    IF bank.wave.k = "None" THEN {2}
    ELSE LET span == MaxOf([i \in DOMAIN bank.wave.v |-> MaxOf(bank.wave.v[i])])
                       - MinOf([i \in DOMAIN bank.wave.v |-> MinOf(bank.wave.v[i])])
         IN IF span = 0 THEN {2} ELSE {span + 1}

\* A fit evaluates the likelihood at theta and compare_models recomputes it
Call_compare_log_likelihood ==
    /\ call = NoCall
    /\ UNCHANGED fitvars
    /\ \E n_components \in {1, 2}, N \in 1..MaxObs :
        \E theta \in LikeThetas(n_components), d \in CompareData(N), bank \in FilterBanks(N) :
          \E n_filter_samples \in SampleCounts(bank) :
            call' = [fn |-> "compare_log_likelihood", theta |-> theta, d |-> d,
                     n_components |-> n_components, bank |-> bank,
                     n_filter_samples |-> n_filter_samples,
                     fit |-> fit_log_likelihood(theta, d, n_components, bank.wave,
                                                bank.trans, n_filter_samples),
                     ret |-> compare_log_likelihood(theta, d, n_components,
                                                    bank.wave, bank.trans)]

NextFilters == Call_compare_log_likelihood
SpecFilters == InitCalls /\ [][NextFilters]_vars

-----------------------------------------------------------------------------
(* The functions that take n_components, each called with the supported    *)
(* and with an unsupported number of components                            *)

Call_model_flux ==
    /\ call = NoCall
    /\ UNCHANGED fitvars
    /\ \E n_components \in {1, 2, 3}, N \in 1..MaxObs :
        \E theta \in IF n_components = 1 THEN LikeThetas(1) ELSE LikeThetas(2),
           d \in CompareData(N) :
            call' = [fn |-> "model_flux", theta |-> theta, d |-> d,
                     n_components |-> n_components,
                     ret |-> model_flux(theta, d.obs_wave, d.obs_flux,
                                        d.kappa_interp, d.redshift, d.distance,
                                        n_components)]

\* One call of log_prior or of model_flux, or one invocation of fit_dust_model
NextComponents ==
    \/ pc = "idle" /\ Call_log_prior
    \/ pc = "idle" /\ Call_model_flux
    \/ call = NoCall /\ Next

SpecComponents == InitFit /\ [][NextComponents]_vars

-----------------------------------------------------------------------------
(* Claims about the pure functions *)

\* The sequence s with element j replaced by x
Put(s, j, x) == [s EXCEPT ![j] = x]

\* C1 (as claimed): for a fixed theta and an observation flagged as an upper
\* limit, log_likelihood never decreases when that limit's flux threshold is
\* raised, and the limit's contribution never increases when the model flux
\* at the limit is higher.
C1_UpperLimitMonotone ==
    call.fn = "log_likelihood" =>
        \A j \in DOMAIN call.d.obs_limits :
            call.d.obs_limits[j] =>
                /\ \A t \in 0..MaxFlux :
                    t >= call.d.obs_flux[j] =>
                        FLe(call.ret,
                            LogLike(call.theta,
                                    [call.d EXCEPT !.obs_flux = Put(@, j, t)],
                                    call.n_components))
                /\ \A theta2 \in LikeThetas(call.n_components) :
                    LET f1 == QValue(model_flux(call.theta, call.d.obs_wave,
                                call.d.obs_flux, call.d.kappa_interp,
                                call.d.redshift, call.d.distance,
                                call.n_components), j)
                        f2 == QValue(model_flux(theta2, call.d.obs_wave,
                                call.d.obs_flux, call.d.kappa_interp,
                                call.d.redshift, call.d.distance,
                                call.n_components), j)
                    IN f2 >= f1 =>
                        FLe(upper_limit_term(f2, call.d.obs_flux[j],
                                             call.d.obs_flux_err[j]),
                            upper_limit_term(f1, call.d.obs_flux[j],
                                             call.d.obs_flux_err[j]))

\* The sum of f over the finite set S, of integers and of floats
RECURSIVE SetSum(_, _)
SetSum(f, S) ==
    IF S = {} THEN 0
    ELSE LET j == CHOOSE j \in S : TRUE IN f[j] + SetSum(f, S \ {j})

RECURSIVE FSetSum(_, _)
FSetSum(f, S) ==
    IF S = {} THEN Fin(0)
    ELSE LET j == CHOOSE j \in S : TRUE IN FAdd(f[j], FSetSum(f, S \ {j}))

\* The model fluxes of a call of log_likelihood, one per observation
CallFlux ==
    CHOOSE m \in {[j \in DOMAIN call.d.obs_flux |-> QValue(q, j)] :
                    q \in {model_flux(call.theta, call.d.obs_wave, call.d.obs_flux,
                                      call.d.kappa_interp, call.d.redshift,
                                      call.d.distance, call.n_components)}} : TRUE

\* The Gaussian term of observation j for the model fluxes m:
\* -0.5 (obs - model)^2 / err^2 - 0.5 ln(2 pi err^2)
GaussianTerm(m, j) ==
    -((500 * (call.d.obs_flux[j] - m[j]) * (call.d.obs_flux[j] - m[j]))
        \div (call.d.obs_flux_err[j] * call.d.obs_flux_err[j]))
    - HalfLogNorm[call.d.obs_flux_err[j]]

\* The upper-limit term of observation j for the model fluxes m
LimitTerm(m, j) ==
    upper_limit_term(m[j], call.d.obs_flux[j], call.d.obs_flux_err[j])

Detections == {j \in DOMAIN call.d.obs_limits : ~call.d.obs_limits[j]}
Limits == {j \in DOMAIN call.d.obs_limits : call.d.obs_limits[j]}

\* C13: every observation contributes to exactly one likelihood term
\* according to its upper-limit flag, and an absent class contributes 0:
\* with no upper limits log_likelihood is the Gaussian term of the
\* detections alone, with no detections the upper-limit term alone.
C13_OneTermPerObservation ==
    call.fn = "log_likelihood" =>
        \A m \in {CallFlux} :
        \A gauss \in {Fin(SetSum([j \in Detections |-> GaussianTerm(m, j)], Detections))} :
        \A upper \in {FSetSum([j \in Limits |-> LimitTerm(m, j)], Limits)} :
            /\ call.ret = FAdd(gauss, upper)
            /\ Limits = {} => call.ret = gauss
            /\ Detections = {} => call.ret = upper

\* log_likelihood was called on two or more upper limits and no detection,
\* and returned a finite value below 0
C13_Witness ==
    /\ call.fn = "log_likelihood"
    /\ Detections = {} /\ Cardinality(Limits) >= 2
    /\ isfinite(call.ret) /\ call.ret.v < 0

\* The probability term of some upper limit is zero for the model fluxes m:
\* z <= -8.5 in float64
ZeroProbability(m) ==
    \E j \in Limits : 2 * (m[j] - call.d.obs_flux[j]) <= -17 * call.d.obs_flux_err[j]

\* C14: when the probability term of an upper limit evaluates to zero,
\* log_likelihood returns minus infinity as a value and raises no error.
C14_ZeroProbabilityGivesNegInf ==
    (call.fn = "log_likelihood" /\ Limits # {} /\ ZeroProbability(CallFlux))
        => call.ret = NegInf

\* log_likelihood was called on a detection and an upper limit of zero
\* probability
C14_Witness ==
    /\ call.fn = "log_likelihood"
    /\ Detections # {}
    /\ ZeroProbability(CallFlux)
    /\ call.ret = NegInf

\* The intervals of the prior as the specification writes them
InClosed(x, lo, hi) == x.k = "fin" /\ lo <= x.v /\ x.v <= hi
InOpen(x, lo, hi) == x.k = "fin" /\ lo < x.v /\ x.v < hi

ClosedBox(theta, n_components) ==
    /\ InClosed(theta[1], -6, 1)
    /\ InClosed(theta[2], 20, 2000)
    /\ n_components = 2 =>
        /\ InClosed(theta[3], -8, 1)
        /\ InClosed(theta[4], 20, 3000)

OpenBox(theta, n_components) ==
    /\ InOpen(theta[1], -6, 1)
    /\ InOpen(theta[2], 20, 2000)
    /\ n_components = 2 =>
        /\ InOpen(theta[3], -8, 1)
        /\ InOpen(theta[4], 20, 3000)

HotAboveCold(theta, n_components) ==
    n_components = 2 => theta[4].k = "fin" /\ theta[2].k = "fin" /\ theta[4].v > theta[2].v

\* C4 (as claimed): log_prior returns 0 for every theta whose parameters lie
\* in their intervals, the endpoints of the intervals included, with
\* temp-hot > temp-cold for two components.
C4_ClosedBoxGivesZero ==
    (call.fn = "log_prior" /\ call.n_components \in {1, 2}
        /\ ClosedBox(call.theta, call.n_components)
        /\ HotAboveCold(call.theta, call.n_components))
    => call.ret = Fin(0)

\* C4 (amended): log_prior returns 0 for every theta whose parameters lie
\* strictly inside their intervals, the endpoints excluded, with
\* temp-hot > temp-cold for two components.
C4_OpenBoxGivesZero ==
    (call.fn = "log_prior" /\ call.n_components \in {1, 2}
        /\ OpenBox(call.theta, call.n_components)
        /\ HotAboveCold(call.theta, call.n_components))
    => call.ret = Fin(0)

\* C4 witness: a two-component theta strictly inside the box, one degree
\* below the upper end of the hot temperature interval, was given prior 0.
C4_Witness ==
    /\ call.fn = "log_prior" /\ call.n_components = 2
    /\ OpenBox(call.theta, 2) /\ HotAboveCold(call.theta, 2)
    /\ call.theta[4] = Fin(2999)
    /\ call.ret = Fin(0)

OutsideBox(theta, n_components) ==
    LET out(x, lo, hi) == FLt(x, Fin(lo)) \/ FGt(x, Fin(hi))
    IN \/ out(theta[1], -6, 1)
       \/ out(theta[2], 20, 2000)
       \/ n_components = 2 /\ (out(theta[3], -8, 1) \/ out(theta[4], 20, 3000))

\* C5: log_prior returns minus infinity for every theta with a parameter
\* outside its bounds and for every two-component theta with
\* temp_hot <= temp_cold, and for one or two components it returns nothing
\* but 0 or minus infinity.
C5_OutsideGivesNegInf ==
    (call.fn = "log_prior" /\ call.n_components \in {1, 2}) =>
        /\ call.ret \in {Fin(0), NegInf}
        /\ OutsideBox(call.theta, call.n_components) => call.ret = NegInf
        /\ (call.n_components = 2 /\ FLe(call.theta[4], call.theta[2]))
            => call.ret = NegInf

\* C5 witness: a two-component theta inside the box with equal temperatures
\* was given prior minus infinity.
C5_Witness ==
    /\ call.fn = "log_prior" /\ call.n_components = 2
    /\ OpenBox(call.theta, 2)
    /\ call.theta[4] = call.theta[2]
    /\ call.ret = NegInf

\* C9 (as claimed): calc_flux divides luminosity / (4 pi distance^2) by
\* (1 + z) when the luminosity is per unit frequency and multiplies it when
\* the luminosity is per unit wavelength; a luminosity of neither kind is
\* rejected with an invalid-input error.
C9_DivideForFrequency ==
    call.fn = "calc_flux" =>
        LET L == call.luminosity.val[1]
            d2 == call.distance * call.distance
            z1 == 1 + call.redshift
        IN IF call.luminosity.k = "Quantity" /\ call.luminosity.unit = "erg/s/Hz"
           THEN REq(call.flux_in.val[1], <<L[1], L[2] * d2 * z1>>)
           ELSE IF call.luminosity.k = "Quantity" /\ call.luminosity.unit = "erg/s/AA"
           THEN REq(call.flux_in.val[1], <<L[1] * z1, L[2] * d2>>)
           ELSE call.ret = ValueError

\* C9 (amended): calc_flux multiplies luminosity / (4 pi distance^2) by
\* (1 + z) when the luminosity is per unit frequency and divides it when the
\* luminosity is per unit wavelength; a luminosity of neither kind is
\* rejected with an invalid-input error.
C9_MultiplyForFrequency ==
    call.fn = "calc_flux" =>
        LET L == call.luminosity.val[1]
            d2 == call.distance * call.distance
            z1 == 1 + call.redshift
        IN IF call.luminosity.k = "Quantity" /\ call.luminosity.unit = "erg/s/Hz"
           THEN REq(call.flux_in.val[1], <<L[1] * z1, L[2] * d2>>)
           ELSE IF call.luminosity.k = "Quantity" /\ call.luminosity.unit = "erg/s/AA"
           THEN REq(call.flux_in.val[1], <<L[1], L[2] * d2 * z1>>)
           ELSE call.ret = ValueError

\* C9 witness: a per-frequency luminosity at redshift 2 and distance 2 gave
\* a flux of three quarters of the luminosity.
C9_Witness ==
    /\ call.fn = "calc_flux"
    /\ call.luminosity.k = "Quantity" /\ call.luminosity.unit = "erg/s/Hz"
    /\ call.redshift = 2 /\ call.distance = 2
    /\ REq(call.flux_in.val[1], <<3 * call.luminosity.val[1][1], 4>>)

Invoked(f) == \E i \in DOMAIN call.calls : call.calls[i] = f

\* C10: log_probability returns minus infinity without invoking
\* log_likelihood whenever log_prior(theta) is not finite, and returns
\* log_prior(theta) + log_likelihood(theta) otherwise.
C10_ShortCircuit ==
    call.fn = "log_probability" =>
        IF ~isfinite(log_prior(call.theta, call.n_components))
        THEN call.ret = NegInf /\ ~Invoked("log_likelihood")
        ELSE /\ Invoked("log_likelihood")
             /\ call.ret = FAdd(log_prior(call.theta, call.n_components),
                                LogLike(call.theta, call.d, call.n_components))

\* C10 witness: a theta outside the prior box was given minus infinity with
\* no call of log_likelihood.
C10_Witness ==
    /\ call.fn = "log_probability"
    /\ log_prior(call.theta, call.n_components) = NegInf
    /\ call.ret = NegInf
    /\ ~Invoked("log_likelihood")

\* theta with the (log-mass, temperature) pairs of the two components
\* exchanged
Exchanged(theta) == <<theta[3], theta[4], theta[1], theta[2]>>

\* C26: for every two-component theta log_likelihood is unchanged when the
\* two components are exchanged, log_prior is finite for at most one of
\* theta and its exchanged version, and so is the posterior.
C26_LabelSwap ==
    (call.fn = "log_probability" /\ call.n_components = 2) =>
        /\ LogLike(Exchanged(call.theta), call.d, 2) = LogLike(call.theta, call.d, 2)
        /\ ~(/\ isfinite(log_prior(call.theta, 2))
             /\ isfinite(log_prior(Exchanged(call.theta), 2)))
        /\ ~(/\ isfinite(call.ret)
             /\ isfinite(log_probability(Exchanged(call.theta), call.d, 2).ret))

\* The posterior was finite for a theta with two different temperatures
\* whose exchanged version lies in the prior box
C26_Witness ==
    /\ call.fn = "log_probability" /\ call.n_components = 2
    /\ isfinite(call.ret)
    /\ call.theta[2] # call.theta[4]
    /\ OpenBox(Exchanged(call.theta), 2)
    /\ log_probability(Exchanged(call.theta), call.d, 2).ret = NegInf

-----------------------------------------------------------------------------
(* Claims about the fit *)

\* A recorded step of the chain holds no non-finite value
FiniteStep(e) ==
    \A w \in DOMAIN e.pos : \A d \in DOMAIN e.pos[w] : isfinite(e.pos[w][d])

\* C2 (as claimed): for valid input and every ensemble the sampler can
\* leave at the end of a run, fit_dust_model raises an error only before
\* sampling begins: once a run has been made no error reaches the caller.
C2_NoErrorOnceSampling ==
    pc = "raised" => cycle = 0

\* C3 (as claimed): the chain mcmc_with_sigma_clipping returns after its
\* CHECK/REPAIR cycles contains no non-finite value.
C3_ReturnedChainFinite ==
    (pc \in {"summarize", "done"} /\ cycle > 1) =>
        \A i \in DOMAIN chain : FiniteStep(chain[i])

\* C6 (as claimed): when repeats is not greater than 1, the retained steps
\* per walker number at most n_steps * (1 - burn_in), and none of the first
\* floor(n_steps * burn_in) steps of the run is retained.
C6_BurnInDiscarded ==
    (pc = "done" /\ args.repeats <= 1) =>
        /\ Len(samples_crop) * BurnDen <= args.n_steps * (BurnDen - args.burn_in)
        /\ \A i \in DOMAIN samples_crop :
              samples_crop[i].step > (args.n_steps * args.burn_in) \div BurnDen

\* C7: when repeats > 1, the samples the summarizer uses are exactly the
\* n_steps steps of every walker that the final run recorded, in order: no
\* step of an earlier run is among them and none of the final run is missing.
C7_FinalCycleOnly ==
    (pc = "done" /\ args.repeats > 1) =>
        /\ Len(samples_crop) = args.n_steps
        /\ \A k \in 1..args.n_steps :
              /\ samples_crop[k] = chain[(args.repeats - 1) * args.n_steps + k]
              /\ samples_crop[k].cycle = args.repeats
              /\ samples_crop[k].step = k
              /\ Len(samples_crop[k].pos) = args.n_walkers
        /\ results = MakeResults(samples_crop, args)

\* A fit with repeats > 1 has returned, and the first step recorded by its
\* first run differs from the first step of its final run
C7_Witness ==
    /\ pc = "done" /\ args.repeats > 1 /\ args.n_steps > 1
    /\ Len(chain) = args.repeats * args.n_steps
    /\ chain[1].pos # samples_crop[1].pos

\* The retained samples of parameter d, and of the total dust mass
RetainedOf(d) == Flat(samples_crop, args.n_walkers, d)
RetainedTotal ==
    [i \in 1..(args.n_walkers * Len(samples_crop)) |->
        IF args.n_components = 1 THEN DustMass(RetainedOf(1)[i])
        ELSE FAdd(DustMass(RetainedOf(1)[i]), DustMass(RetainedOf(3)[i]))]

\* (p50, p84.13 - p50, p50 - p15.87) of xs
Triple(xs) ==
    <<Percentile(xs, 5000),
      FSub(Percentile(xs, 8413), Percentile(xs, 5000)),
      FSub(Percentile(xs, 5000), Percentile(xs, 1587))>>

\* C12: the result mapping has one entry per parameter in theta order and
\* a final total_dust_mass entry, each the triple (p50, p84.13 - p50,
\* p50 - p15.87) of the retained samples, the samples of total_dust_mass
\* being the per-sample sum of 10^log_mass over the components, so both
\* error terms of every entry are >= 0.
C12_ResultTriples ==
    pc = "done" =>
        LET n_dim == n_dim_of(args.n_components)
            xs(e) == IF e <= n_dim THEN RetainedOf(e) ELSE RetainedTotal
        IN /\ Len(results) = n_dim + 1
           /\ \A d \in 1..n_dim : results[d][1] = ParamNames[d]
           /\ results[n_dim + 1][1] = "total_dust_mass"
           /\ \A e \in 1..(n_dim + 1) :
                /\ results[e][2] = Triple(xs(e))
                /\ FLe(Fin(0), results[e][2][2])
                /\ FLe(Fin(0), results[e][2][3])

\* C15: for every n_components other than 1 or 2, log_prior, model_flux and
\* fit_dust_model raise an invalid-input error, and fit_dust_model raises it
\* before the sampler is constructed or advanced by a step and before any
\* result is written.
C15_UnsupportedComponents ==
    /\ (call.fn \in {"log_prior", "model_flux"} /\ call.n_components \notin {1, 2})
          => call.ret = ValueError
    /\ (pc # "idle" /\ args.n_components \notin {1, 2})
          => /\ pc = "raised" /\ err.type = "ValueError"
             /\ sampler = None /\ chain = <<>> /\ cycle = 0
             /\ samples_crop = <<>> /\ results = None

\* fit_dust_model was invoked with three components and has raised
C15_Witness ==
    /\ pc = "raised" /\ args.n_components = 3
    /\ err = [type |-> "ValueError", from |-> "create_prior"]

\* C16 (as claimed): the ensemble handed to the first run has exactly
\* n_walkers positions and every one of them has a finite log_prior,
\* whatever the uniform draws were.
C16_InitialEnsembleValid ==
    (pc = "run" /\ cycle = 0) =>
        /\ Len(pos) = args.n_walkers
        /\ \A w \in DOMAIN pos : isfinite(log_prior(pos[w], args.n_components))

\* C17 (as claimed): INIT terminates.  pos_in is drawn once and the loop
\* condition depends on the length of pos_out alone, so the loop ends exactly
\* when every iteration that is entered appends a position: an iteration
\* that appends none leaves the state as it was and is repeated forever.
C17_InitLoopAppends ==
    (pc = "init" /\ Len(pos_out) < args.n_walkers) =>
        \E w \in DOMAIN pos_in : isfinite(log_prior(pos_in[w], args.n_components))

\* The ensemble p is what CHECK/REPAIR makes of the final positions last of
\* a run: the walkers within the clip keep their position
FromRepairOf(p, last) ==
    /\ Len(p) = Len(last)
    /\ \A w \in valid_walkers(last, args.sigma_clip) : p[w] = last[w]

\* C18: for every repeats >= 1 mcmc_with_sigma_clipping runs the sampler
\* exactly repeats times in sequence, with one CHECK/REPAIR after every run
\* but the last and none after the last, and run i+1 starts from the
\* positions CHECK/REPAIR made of the final positions of run i: once the
\* first run is made the call stops only after run number repeats.
C18_RunCheckSequence ==
    /\ [](pc # "idle" /\ args.repeats >= 1 =>
            /\ (pc \in {"summarize", "done", "raised"} /\ cycle >= 1) =>
                  cycle = args.repeats
            /\ pc = "check" => (1 <= cycle /\ cycle < args.repeats)
            /\ pc = "run" => cycle < args.repeats
            /\ (pc = "run" /\ cycle >= 1) => Len(pos) = args.n_walkers)
    /\ [][pc # "idle" /\ args.repeats >= 1 =>
            /\ pc = "run" =>
                  /\ cycle' = cycle + 1
                  /\ pc' = IF cycle' = args.repeats THEN "summarize" ELSE "check"
            /\ pc = "check" =>
                  /\ cycle' = cycle
                  /\ pc' = "run"
                  /\ FromRepairOf(pos', chain'[Len(chain')].pos)
            /\ pc \notin {"run", "check"} => cycle' = cycle]_vars

\* C19: each run appends exactly n_steps steps of every walker to the chain
\* and no step of an earlier run is dropped or reordered, so the chain
\* returned after repeats runs holds repeats * n_steps steps per walker in
\* the order of execution.
C19_ChainAccumulates ==
    /\ [](pc # "idle" =>
            /\ Len(chain) = cycle * args.n_steps
            /\ \A i \in DOMAIN chain :
                  /\ chain[i].cycle = ((i - 1) \div args.n_steps) + 1
                  /\ chain[i].step = ((i - 1) % args.n_steps) + 1
                  /\ Len(chain[i].pos) = args.n_walkers
            /\ (pc \in {"summarize", "done"} /\ args.repeats >= 1) =>
                  Len(chain) = args.repeats * args.n_steps)
    /\ [][pc # "idle" =>
            /\ Len(chain') = IF pc = "run" THEN Len(chain) + args.n_steps
                             ELSE Len(chain)
            /\ \A i \in DOMAIN chain :
                  /\ chain'[i].cycle = chain[i].cycle
                  /\ chain'[i].step = chain[i].step
                  /\ (pc = "run" \/ i < Len(chain)) => chain'[i] = chain[i]]_vars

\* A call with repeats >= 2 and n_steps >= 2 has returned its chain
C19_Witness ==
    /\ pc = "done" /\ args.repeats >= 2 /\ args.n_steps >= 2
    /\ Len(chain) = args.repeats * args.n_steps
    /\ chain[1].cycle = 1 /\ chain[Len(chain)].cycle = args.repeats

\* The deviation of walker w of the ensemble last from the median of
\* dimension d, compared by Cmp with sigma_clip times the standard deviation
\* of that dimension floored at 1e-10 (a zero deviation of integers is the
\* only one the floor decides)
Deviates(Cmp(_, _), last, w, d, sigma_clip) ==
    LET xs == Column(last, d)
        dev2 == 2 * last[w][d].v - Median2(xs)
    IN IF VarN2(xs) = 0 THEN dev2 # 0
       ELSE Cmp(dev2 * dev2 * Len(xs) * Len(xs),
                4 * sigma_clip * sigma_clip * VarN2(xs))

\* The walkers deviating in at least one dimension by strictly more than
\* sigma_clip standard deviations
StrictlyBeyond(last, sigma_clip) ==
    {w \in DOMAIN last : \E d \in DOMAIN last[w] :
        Deviates(LAMBDA a, b : a > b, last, w, d, sigma_clip)}

\* The walkers deviating in at least one dimension by sigma_clip standard
\* deviations or more
AtOrBeyond(last, sigma_clip) ==
    {w \in DOMAIN last : \E d \in DOMAIN last[w] :
        Deviates(LAMBDA a, b : a >= b, last, w, d, sigma_clip)}

\* The next run starts from start, made of the repaired final positions
\* last by replacing exactly the walkers of flagged
Replaces(flagged, last, start) ==
    /\ Len(start) = Len(last)
    /\ \A w \in DOMAIN last :
          IF w \in flagged
          THEN \E v \in DOMAIN last \ flagged :
                  \E noise \in NoiseVecs(Len(last[w])) :
                      start[w] = AddNoise(last[v], noise)
          ELSE start[w] = last[w]

C21_OnlyFlaggedChange ==
    [][(pc = "check" /\ pc' = "run") =>
          LET before == chain[Len(chain)].pos
              flagged == invalid_mask(before)
                           \cup AtOrBeyond(chain'[Len(chain')].pos, args.sigma_clip)
          IN /\ Len(pos') = args.n_walkers
             /\ Len(before) = args.n_walkers
             /\ \A w \in DOMAIN before \ flagged : pos'[w] = before[w]
             /\ flagged = {} => pos' = before]_vars

\* The next run of three or more walkers starts with one walker moved and
\* another where the previous run left it
C21_Witness ==
    /\ pc = "run" /\ cycle >= 1 /\ args.n_walkers >= 3
    /\ \E w, v \in DOMAIN pos :
          /\ pos[w] # chain[Len(chain)].pos[w]
          /\ pos[v] = chain[Len(chain)].pos[v]

\* The position p is within sigma_clip standard deviations (floored at
\* 1e-10) of the median of the ensemble last in every dimension
InClipRange(p, last, sigma_clip) ==
    \A d \in DOMAIN p :
        LET xs == Column(last, d)
            dev2 == 2 * p[d].v - Median2(xs)
        IN /\ isfinite(p[d])
           /\ IF VarN2(xs) = 0 THEN dev2 = 0
              ELSE dev2 * dev2 * Len(xs) * Len(xs)
                      <= 4 * sigma_clip * sigma_clip * VarN2(xs)

\* C22: after a sigma-clipping repair the new position of every replaced
\* walker lies within sigma_clip standard deviations of the per-dimension
\* median of the current distribution in every dimension.
C22_ReplacementsInClipRange ==
    (pc = "run" /\ cycle >= 1) =>
        \A w \in AtOrBeyond(chain[Len(chain)].pos, args.sigma_clip) :
            InClipRange(pos[w], chain[Len(chain)].pos, args.sigma_clip)

\* C23: every walker of the initial ensemble comes from its own draw: the
\* walkers can be matched one to one with rows of pos_in holding their
\* positions, so no drawn sample starts more than one walker, also when
\* some of the drawn samples are rejected for a non-finite prior.
C23_OneDrawPerWalker ==
    (pc = "run" /\ cycle = 0) =>
        \E f \in [DOMAIN pos -> DOMAIN pos_in] :
            /\ \A w, v \in DOMAIN pos : w # v => f[w] # f[v]
            /\ \A w \in DOMAIN pos : pos[w] = pos_in[f[w]]

\* C27: CHECK/REPAIR only determines the start positions of the next run:
\* it alters no sample recorded in the chain, so the recorded final step of
\* every completed cycle keeps the value the sampler produced, whether the
\* repair is for non-finite walkers or for outliers.
C27_ChainHistoryKept ==
    [][pc = "check" => chain' = chain]_vars

-----------------------------------------------------------------------------
(* Claims about compare_models *)

\* AIC = 2k - 2 logL and BIC = ln(n) k - 2 logL
Aic(k, logL) == FSub(Fin(2 * k * 1000), FScale(2, logL))
Bic(k, n, logL) == FSub(FScale(k, LnMilli(n)), FScale(2, logL))

\* ret holds the metrics of two models of log-likelihoods logL1 and logL2 on
\* n observations
HoldsMetrics(ret, logL1, logL2, n) ==
    /\ ret.aic_1comp = Aic(2, logL1) /\ ret.aic_2comp = Aic(4, logL2)
    /\ ret.bic_1comp = Bic(2, n, logL1) /\ ret.bic_2comp = Bic(4, n, logL2)
    /\ ret.delta_aic = FSub(Aic(2, logL1), Aic(4, logL2))
    /\ ret.delta_bic = FSub(Bic(2, n, logL1), Bic(4, n, logL2))

\* C11: compare_models computes AIC = 2k - 2 logL and BIC = ln(n) k - 2 logL
\* for each model, with k = 2 for one component and 4 for two and n the
\* number of observations, detections and upper limits together, and
\* reports delta = (1-component metric) - (2-component metric) for both.
C11_AicBic ==
    call.fn = "compare_models" =>
        HoldsMetrics(call.ret,
                     LogLike(best_params(call.results_1), call.d, 1),
                     LogLike(best_params(call.results_2), call.d, 2),
                     Len(call.d.obs_limits))

\* Two observations, a detection and an upper limit, were compared and both
\* deltas are finite and differ
C11_Witness ==
    /\ call.fn = "compare_models"
    /\ \E i, j \in DOMAIN call.d.obs_limits :
          call.d.obs_limits[i] /\ ~call.d.obs_limits[j]
    /\ isfinite(call.ret.delta_aic) /\ isfinite(call.ret.delta_bic)
    /\ call.ret.delta_aic # call.ret.delta_bic

\* C25: for every pair (delta_aic, delta_bic) compare_models computes, for
\* any number of observations, exactly one verdict message about the
\* favored model is printed.
C25_AlwaysOneVerdict ==
    call.fn = "compare_models" => Len(call.ret.printed) = 1

\* C24: for the same data and the same theta the log-likelihood that
\* compare_models recomputes equals the log-likelihood the sampler of the
\* fit evaluated, without and with filter bandpasses.
C24_SameLogLikelihood ==
    call.fn = "compare_log_likelihood" => call.ret = call.fit

====
